---------------------------- MODULE Spec2Model ----------------------------
(***************************************************************************)
(* Model of src/Spotify.py: the recommendation core (country options,      *)
(* nearest-cluster match, playlist build) and the feedback recorder        *)
(* (comment validation, local log append, best-effort remote append).      *)
(*                                                                         *)
(* Text is modelled as a sequence of one-character strings.  The           *)
(* characters "TAB", "NL" and "BEL" stand for the tab, the newline and a   *)
(* non-printable control character.                                        *)
(***************************************************************************)
EXTENDS Integers, Sequences, FiniteSets, TLC

VARIABLES
    vRaw,       \* validate_comment_if_filled: the raw comment handed in
    vOut,       \* validate_comment_if_filled: its outcome, or NotRun
    bSubset,    \* playlist build: the filtered rows, in catalog order
    bN,         \* playlist build: the requested track count (slider)
    bQuery,     \* playlist build: the favorite query text
    bShuffled,  \* playlist build: the order subset.sample(frac=1.0) gave
    bOut,       \* playlist build: the outcome, or BuildNotRun
    cTable,     \* nearest cluster: cluster_means_norm, rows in iteration order
    cPref,      \* nearest cluster: the mood and the five slider ratings
    cOut,       \* nearest cluster: the label returned, or ChooseNotRun
    kPy,        \* country: TRUE when "import pycountry" succeeds
    kHasCol,    \* country: TRUE when the catalog has a "country" column
    kCells,     \* country: the country cell of each catalog row
    kOptions,   \* country: what build_country_options returned, or NoOptions
    kPref,      \* country: the option picked in the selectbox
    kKept,      \* country: the rows the country filter kept, or NotFiltered
    sPlaylist,  \* st.session_state["playlist"]: NoPlaylist (None) or the rows
    sClusters,  \* st.session_state["chosen_clusters"]: <<>> (None) or labels
    sUser,      \* st.session_state["user_id"]: None or Str(text)
    sMood,      \* st.session_state["mood"]: "None" or a mood
    sMsg,       \* what the last handler run showed or raised
    log,        \* the local feedback file: the chunks written, in order
    sheet,      \* the remote sheet: the rows appended, in order
    pc,         \* where the feedback handler stands
    fRow,       \* the feedback_row being saved
    fSteps,     \* the calls save_feedback_final has made for fRow, with outcome
    nSubmits,   \* feedback submissions so far
    nValid,     \* those of them whose comment passed validation
    zText,      \* sanitize_comment: the text handed in
    zCap,       \* sanitize_comment: max_len
    zOut,       \* sanitize_comment: how often it was applied, and the results
    mCatalog,   \* valence mapping: the (cluster, valence) of each catalog row
    mOut,       \* valence mapping: what get_cluster_mapping_by_valence gave
    qQueue,     \* shared log: per session, the number of appends it has begun
    qLeft,      \* shared log: per session, the rest of the line being written
    qFile       \* shared log: the characters of the file, in order

validateVars == <<vRaw, vOut>>
buildVars == <<bSubset, bN, bQuery, bShuffled, bOut>>
chooseVars == <<cTable, cPref, cOut>>
countryVars == <<kPy, kHasCol, kCells, kOptions, kPref, kKept>>
sessionVars ==
    <<sPlaylist, sClusters, sUser, sMood, sMsg, log, sheet, pc, fRow, fSteps,
      nSubmits, nValid>>
sanitizeVars == <<zText, zCap, zOut>>
valenceVars == <<mCatalog, mOut>>
sharedVars == <<qQueue, qLeft, qFile>>
vars ==
    <<validateVars, buildVars, chooseVars, countryVars, sessionVars,
      sanitizeVars, valenceVars, sharedVars>>

NotRun == [err |-> "notrun", value |-> <<>>]

BuildNotRun == [status |-> "notrun", rows |-> <<>>]

ChooseNotRun == [done |-> FALSE, label |-> 0]
NoOptions == [built |-> FALSE, options |-> <<>>, display_to_raw |-> <<>>]
NotFiltered == [done |-> FALSE, rows |-> <<>>]
NoPlaylist == [set |-> FALSE, rows |-> <<>>]
NoText == [nan |-> TRUE, s |-> <<>>]
NoRow == [user_id |-> NoText, mood |-> "None", chosen_clusters |-> <<>>, rating |-> 0,
          comment |-> <<>>, tracks |-> <<>>]

\* the variables of a part of the program that a specification leaves alone
ValidateIdle == vRaw = <<>> /\ vOut = NotRun
BuildIdle ==
    /\ bSubset = <<>> /\ bN = 0 /\ bQuery = <<>> /\ bShuffled = <<>>
    /\ bOut = BuildNotRun
ChooseIdle == cTable = <<>> /\ cPref = <<>> /\ cOut = ChooseNotRun
CountryIdle ==
    /\ kPy = FALSE /\ kHasCol = FALSE /\ kCells = <<>> /\ kOptions = NoOptions
    /\ kPref = <<>> /\ kKept = NotFiltered

SessionIdle ==
    /\ sPlaylist = NoPlaylist /\ sClusters = <<>> /\ sUser = NoText /\ sMood = "None"
    /\ sMsg = "none" /\ log = <<>> /\ sheet = <<>> /\ pc = "idle" /\ fRow = NoRow
    /\ fSteps = <<>> /\ nSubmits = 0 /\ nValid = 0

NotSanitized == [times |-> 0, once |-> <<>>, twice |-> <<>>]
MappingNotRun == [status |-> "notrun", happy |-> 0, sad |-> 0]
SanitizeIdle == zText = <<>> /\ zCap = 0 /\ zOut = NotSanitized
ValenceIdle == mCatalog = <<>> /\ mOut = MappingNotRun
SharedIdle == qQueue = <<>> /\ qLeft = <<>> /\ qFile = <<>>

\* every part but part g is idle / is left unchanged
OthersIdle(g) ==
    /\ g = "validate" \/ ValidateIdle
    /\ g = "build" \/ BuildIdle
    /\ g = "choose" \/ ChooseIdle
    /\ g = "country" \/ CountryIdle
    /\ g = "session" \/ SessionIdle
    /\ g = "sanitize" \/ SanitizeIdle
    /\ g = "valence" \/ ValenceIdle
    /\ g = "shared" \/ SharedIdle
OthersUnchanged(g) ==
    /\ IF g = "validate" THEN TRUE ELSE UNCHANGED validateVars
    /\ IF g = "build" THEN TRUE ELSE UNCHANGED buildVars
    /\ IF g = "choose" THEN TRUE ELSE UNCHANGED chooseVars
    /\ IF g = "country" THEN TRUE ELSE UNCHANGED countryVars
    /\ IF g = "session" THEN TRUE ELSE UNCHANGED sessionVars
    /\ IF g = "sanitize" THEN TRUE ELSE UNCHANGED sanitizeVars
    /\ IF g = "valence" THEN TRUE ELSE UNCHANGED valenceVars
    /\ IF g = "shared" THEN TRUE ELSE UNCHANGED sharedVars

(***************************************************************************)
(* Bounds of the model.                                                    *)
(***************************************************************************)
MaxCommentLen == 4      \* longest raw comment drawn
MaxSubset == 6          \* most rows in a filtered set handed to the build
MaxClusters == 3        \* most rows in a cluster-profile table
MaxCatalog == 3         \* most rows in a catalog whose countries are listed
MaxSubmits == 2         \* most feedback submissions in one session
MaxValenceRows == 4     \* most rows in a catalog whose valence is averaged
MaxSessions == 2        \* sessions appending to the shared local log
MaxAppends == 3         \* most appends begun, all sessions together

(***************************************************************************)
(* Characters.                                                             *)
(***************************************************************************)
CommentChars == {"a", "1", "!", " ", "TAB", "NL", "BEL"}

\* str.isprintable(), per character: the tab, newline and control characters
\* are not printable, the space is.
isprintable(ch) == ch \notin {"TAB", "NL", "BEL"}

LowerLetters == <<"a","b","c","d","e","f","g","h","i","j","k","l","m",
                  "n","o","p","q","r","s","t","u","v","w","x","y","z">>
UpperLetters == <<"A","B","C","D","E","F","G","H","I","J","K","L","M",
                  "N","O","P","Q","R","S","T","U","V","W","X","Y","Z">>

IsLower(ch) == \E i \in 1..26 : LowerLetters[i] = ch
IsUpper(ch) == \E i \in 1..26 : UpperLetters[i] = ch
\* str.isalpha(), per character
isalpha(ch) == IsLower(ch) \/ IsUpper(ch)
\* a character the regular expression \s matches, among those left after
\* the non-printable ones are dropped and tabs/newlines are replaced
IsSpace(ch) == ch \in {" ", "TAB", "NL"}

(***************************************************************************)
(* sanitize_comment (src/Spotify.py:295-309).                              *)
(***************************************************************************)
RECURSIVE KeepPrintable(_)
\* "".join(ch for ch in t if ch.isprintable() or ch in "\n\t")
KeepPrintable(t) ==
    IF t = <<>> THEN <<>>
    ELSE IF isprintable(Head(t)) \/ Head(t) \in {"NL", "TAB"}
         THEN <<Head(t)>> \o KeepPrintable(Tail(t))
         ELSE KeepPrintable(Tail(t))

\* t.replace("\t", " ").replace("\n", " ")
ReplaceTabNl(t) == [i \in 1..Len(t) |-> IF t[i] \in {"TAB", "NL"} THEN " " ELSE t[i]]

RECURSIVE CollapseSpaces(_)
\* re.sub(r"\s+", " ", t)
CollapseSpaces(t) ==
    IF t = <<>> THEN <<>>
    ELSE IF IsSpace(Head(t))
         THEN IF Len(t) > 1 /\ IsSpace(t[2])
              THEN CollapseSpaces(Tail(t))
              ELSE <<" ">> \o CollapseSpaces(Tail(t))
         ELSE <<Head(t)>> \o CollapseSpaces(Tail(t))

RECURSIVE lstrip(_)
lstrip(t) == IF t # <<>> /\ IsSpace(Head(t)) THEN lstrip(Tail(t)) ELSE t

RECURSIVE rstrip(_)
rstrip(t) == IF t # <<>> /\ IsSpace(t[Len(t)])
             THEN rstrip(SubSeq(t, 1, Len(t) - 1)) ELSE t

\* str.strip()
strip(t) == rstrip(lstrip(t))

DefaultMaxLen == 500

\* mutant: the cut at max_len keeps the whitespace it ends on
sanitize_no_rstrip(text, max_len) ==
    LET t1 == KeepPrintable(text)
        t2 == ReplaceTabNl(t1)
        t3 == strip(CollapseSpaces(t2))
    IN  IF Len(t3) > max_len THEN SubSeq(t3, 1, max_len) ELSE t3

sanitize_comment(text, max_len) ==
    LET t1 == KeepPrintable(text)
        t2 == ReplaceTabNl(t1)
        t3 == strip(CollapseSpaces(t2))
    IN  IF Len(t3) > max_len THEN rstrip(SubSeq(t3, 1, max_len)) ELSE t3

(***************************************************************************)
(* validate_comment_if_filled (src/Spotify.py:312-327).  The three         *)
(* ValueErrors are told apart by err: "blank" (line 317), "noletter"       *)
(* (line 323), "short" (line 325); "none" is a normal return.              *)
(***************************************************************************)
HasLetter(t) == \E i \in 1..Len(t) : isalpha(t[i])

\* a raw text made of whitespace only, the empty text included
IsBlank(t) == \A i \in 1..Len(t) : IsSpace(t[i])

\* mutant: the emptiness test looks at the stripped raw text
validate_blank_tolerant(raw_text) ==
    LET clean == sanitize_comment(raw_text, DefaultMaxLen)
    IN  IF strip(raw_text) # <<>> /\ clean = <<>> THEN [err |-> "blank", value |-> <<>>]
        ELSE IF clean # <<>> /\ ~HasLetter(clean) THEN [err |-> "noletter", value |-> <<>>]
        ELSE IF clean # <<>> /\ Len(clean) < 3 THEN [err |-> "short", value |-> <<>>]
        ELSE [err |-> "none", value |-> clean]

\* mutant: the length test comes before the letter test
validate_length_first(raw_text) ==
    LET clean == sanitize_comment(raw_text, DefaultMaxLen)
    IN  IF raw_text # <<>> /\ clean = <<>> THEN [err |-> "blank", value |-> <<>>]
        ELSE IF clean # <<>> /\ Len(clean) < 3 THEN [err |-> "short", value |-> <<>>]
        ELSE IF clean # <<>> /\ ~HasLetter(clean) THEN [err |-> "noletter", value |-> <<>>]
        ELSE [err |-> "none", value |-> clean]

validate_comment_if_filled(raw_text) ==
    LET clean == sanitize_comment(raw_text, DefaultMaxLen)
    IN  IF raw_text # <<>> /\ clean = <<>> THEN [err |-> "blank", value |-> <<>>]
        ELSE IF clean # <<>> /\ ~HasLetter(clean) THEN [err |-> "noletter", value |-> <<>>]
        ELSE IF clean # <<>> /\ Len(clean) < 3 THEN [err |-> "short", value |-> <<>>]
        ELSE [err |-> "none", value |-> clean]

RECURSIVE TextsUpTo(_)
TextsUpTo(n) ==
    IF n = 0 THEN {<<>>}
    ELSE LET shorter == TextsUpTo(n - 1)
         IN  shorter \cup {Append(t, c) : t \in {s \in shorter : Len(s) = n - 1},
                                          c \in CommentChars}

RawComments == TextsUpTo(MaxCommentLen)

(***************************************************************************)
(* ValidateSpec: validate_comment_if_filled applied to every raw comment   *)
(* of the bounded set.                                                     *)
(***************************************************************************)
ValidateInit ==
    /\ vRaw \in RawComments
    /\ vOut = NotRun
    /\ OthersIdle("validate")

Validate ==
    /\ vOut = NotRun
    /\ vOut' = validate_comment_if_filled(vRaw)
    /\ UNCHANGED vRaw
    /\ OthersUnchanged("validate")

ValidateNext == Validate

ValidateSpec == ValidateInit /\ [][ValidateNext]_vars

\* C2 (as stated): a blank raw comment, whitespace-only ones included, is
\* accepted and yields the empty string.
C2_BlankAlwaysValid ==
    (vOut # NotRun /\ IsBlank(vRaw)) => vOut = [err |-> "none", value |-> <<>>]

\* C2 (amended): an empty raw comment is accepted and yields the empty string,
\* while a non-empty raw comment made only of whitespace is rejected with the
\* blank-after-sanitize error.
C2_EmptyValidWhitespaceRejected ==
    vOut # NotRun =>
        /\ vRaw = <<>> => vOut = [err |-> "none", value |-> <<>>]
        /\ (vRaw # <<>> /\ IsBlank(vRaw)) => vOut.err = "blank"

C2_Witness ==
    /\ vRaw = <<" ", " ", " ">>
    /\ vOut.err = "blank"

\* C6 (as stated): a comment is accepted exactly when its sanitized text is
\* empty because the raw comment was blank, or has a letter and length >= 3;
\* an accepted comment yields the sanitized text; a non-blank raw comment
\* sanitized to nothing fails as blank, a letterless text as noletter, a
\* text with a letter but shorter than 3 as short.
C6_AcceptRejectAsStated ==
    vOut # NotRun =>
        LET clean == sanitize_comment(vRaw, DefaultMaxLen)
        IN  /\ vOut.err = "none" <=>
                   \/ (clean = <<>> /\ IsBlank(vRaw))
                   \/ (HasLetter(clean) /\ Len(clean) >= 3)
            /\ vOut.err = "none" => vOut.value = clean
            /\ (~IsBlank(vRaw) /\ clean = <<>>) => vOut.err = "blank"
            /\ (clean # <<>> /\ ~HasLetter(clean)) => vOut.err = "noletter"
            /\ (HasLetter(clean) /\ Len(clean) < 3) => vOut.err = "short"

\* C6 (amended): the same, with "blank" read as the code tests it, the raw
\* comment being empty: a non-empty raw comment whose sanitized text is empty
\* (whitespace-only ones included) fails as blank.
C6_AcceptRejectEmptyRaw ==
    vOut # NotRun =>
        LET clean == sanitize_comment(vRaw, DefaultMaxLen)
        IN  /\ vOut.err = "none" <=>
                   \/ vRaw = <<>>
                   \/ (HasLetter(clean) /\ Len(clean) >= 3)
            /\ vOut.err = "none" => vOut.value = clean
            /\ (vRaw # <<>> /\ clean = <<>>) => vOut.err = "blank"
            /\ (clean # <<>> /\ ~HasLetter(clean)) => vOut.err = "noletter"
            /\ (HasLetter(clean) /\ Len(clean) < 3) => vOut.err = "short"

\* a letterless text shorter than 3 is refused for its missing letter
C6_Witness ==
    /\ vRaw = <<"1", "TAB", "!">>
    /\ vOut.err = "noletter"

(***************************************************************************)
(* SanitizeSpec: sanitize_comment applied to a text, then to its own       *)
(* result, with the same max_len.  max_len is drawn from values below the  *)
(* longest text drawn, so that the cut of lines 306-307 happens, and from  *)
(* the default.                                                            *)
(***************************************************************************)
MaxLenChoices == {1, 2, 3, DefaultMaxLen}

SanitizeInit ==
    /\ zText \in RawComments
    /\ zCap \in MaxLenChoices
    /\ zOut = NotSanitized
    /\ OthersIdle("sanitize")

SanitizeOnce ==
    /\ zOut.times = 0
    /\ zOut' = [times |-> 1, once |-> sanitize_comment(zText, zCap), twice |-> <<>>]
    /\ UNCHANGED <<zText, zCap>>
    /\ OthersUnchanged("sanitize")

SanitizeAgain ==
    /\ zOut.times = 1
    /\ zOut' = [zOut EXCEPT !.times = 2, !.twice = sanitize_comment(zOut.once, zCap)]
    /\ UNCHANGED <<zText, zCap>>
    /\ OthersUnchanged("sanitize")

SanitizeNext == SanitizeOnce \/ SanitizeAgain

SanitizeSpec == SanitizeInit /\ [][SanitizeNext]_vars

\* the text was longer than max_len after the whitespace was collapsed
WasCut(text, max_len) ==
    Len(strip(CollapseSpaces(ReplaceTabNl(KeepPrintable(text))))) > max_len

\* C13: sanitize_comment is idempotent: applied to its own result, with
\* control characters, tabs, newlines, runs of whitespace and a cut at
\* max_len that falls on a space among the inputs, it returns that result.
C13_SanitizeIdempotent ==
    zOut.times = 2 => zOut.twice = zOut.once

\* a text with a newline, a tab and a control character, cut on a space
C13_Witness ==
    /\ zText = <<"a", "NL", "TAB", "1">>
    /\ zCap = 2
    /\ WasCut(zText, zCap)
    /\ zOut.times = 2
    /\ zOut.once = <<"a">>
    /\ zOut.twice = <<"a">>

(***************************************************************************)
(* build_playlist_from_subset (src/Spotify.py:267-289) and the part of     *)
(* the preference handler that calls it (src/Spotify.py:665-669).          *)
(* A row is [id, track_name, track_artist]; the random order that          *)
(* subset.sample(frac=1.0, random_state=None) gives is a permutation the   *)
(* caller of the operator chooses.                                         *)
(***************************************************************************)
MinTracks == 5
MaxTracks == 30

Min(a, b) == IF a < b THEN a ELSE b

\* str.lower(), per character and per text
LowerChar(ch) ==
    IF IsUpper(ch) THEN LowerLetters[CHOOSE i \in 1..26 : UpperLetters[i] = ch] ELSE ch
lower(t) == [i \in 1..Len(t) |-> LowerChar(t[i])]

\* DataFrame.head(n)
head(rows, n) == SubSeq(rows, 1, Min(n, Len(rows)))

RECURSIVE SelectRows(_, _)
\* rows[mask]: the rows at which the flag holds, in their order
SelectRows(rows, flags) ==
    IF rows = <<>> THEN <<>>
    ELSE IF Head(flags) THEN <<Head(rows)>> \o SelectRows(Tail(rows), Tail(flags))
         ELSE SelectRows(Tail(rows), Tail(flags))

\* Series.str.contains(pat) compiles pat as a regular expression: "(" with no
\* ")" is refused (re.error), "." stands for any character, every other
\* character of the model's alphabet stands for itself.
ValidPattern(pat) == \A i \in 1..Len(pat) : pat[i] # "("

contains(text, pat) ==
    \E off \in 0..(Len(text) - Len(pat)) :
        \A j \in 1..Len(pat) : pat[j] = "." \/ pat[j] = text[off + j]

\* the mask of lines 280-283
FavMask(rows, fav) ==
    [i \in 1..Len(rows) |->
        contains(lower(rows[i].track_name), fav) \/ contains(lower(rows[i].track_artist), fav)]

Negate(flags) == [i \in 1..Len(flags) |-> ~flags[i]]

\* pd.concat([fav_df.head(3), other_df]) of line 287
ConcatFavFirst(subset_shuffled, fav) ==
    LET mask == FavMask(subset_shuffled, fav)
        fav_df == SelectRows(subset_shuffled, mask)
        other_df == SelectRows(subset_shuffled, Negate(mask))
    IN  head(fav_df, 3) \o other_df

\* mutant: the final head(n_tracks) of lines 287 and 289 is forgotten
build_playlist_untruncated(subset, perm, n_tracks, fav_query) ==
    LET subset_shuffled == [i \in 1..Len(subset) |-> subset[perm[i]]]
        fav == lower(strip(fav_query))
    IN  IF fav_query # <<>> /\ fav # <<>>
        THEN IF ValidPattern(fav)
             THEN [status |-> "ok", rows |-> ConcatFavFirst(subset_shuffled, fav)]
             ELSE [status |-> "re.error", rows |-> <<>>]
        ELSE [status |-> "ok", rows |-> subset_shuffled]

build_playlist_from_subset(subset, perm, n_tracks, fav_query) ==
    LET subset_shuffled == [i \in 1..Len(subset) |-> subset[perm[i]]]
        fav == lower(strip(fav_query))
    IN  IF fav_query # <<>> /\ fav # <<>>
        THEN IF ValidPattern(fav)
             THEN [status |-> "ok", rows |-> head(ConcatFavFirst(subset_shuffled, fav), n_tracks)]
             ELSE [status |-> "re.error", rows |-> <<>>]
        ELSE [status |-> "ok", rows |-> head(subset_shuffled, n_tracks)]

\* lines 665-669: the empty-selection error, or the build with
\* n_rekom = min(n_tracks, len(subset))
BuildOrFail(subset, perm, n_tracks, fav_query) ==
    IF subset = <<>> THEN [status |-> "empty", rows |-> <<>>]
    ELSE build_playlist_from_subset(subset, perm, Min(n_tracks, Len(subset)), fav_query)

Row(i, name, artist) == [id |-> i, track_name |-> name, track_artist |-> artist]

\* the rows the filtered sets are drawn from
BuildPool ==
    << Row(1, <<"a","b">>, <<"x">>),
       Row(2, <<"A","b">>, <<"y">>),
       Row(3, <<"c">>,     <<"a","b">>),
       Row(4, <<"c","d">>, <<"x","a">>),
       Row(5, <<"d">>,     <<"A">>),
       Row(6, <<"c">>,     <<"y">>),
       Row(7, <<"b","a">>, <<"y">>),
       Row(8, <<"d">>,     <<"x">>) >>

\* the favorite queries drawn: none, blank, patterns matching several, few or
\* no rows, a wildcard, a pattern the regular-expression compiler refuses
BuildQueries ==
    { <<>>, <<" ">>, <<"a">>, <<" ","A","B">>, <<"c">>, <<"z">>, <<".">>, <<"(">> }

NTrackChoices == {MinTracks, MinTracks + 1, MaxTracks}

BuildInit ==
    /\ bSubset \in {SubSeq(BuildPool, 1, k) : k \in 0..MaxSubset}
    /\ bN \in NTrackChoices
    /\ bQuery \in BuildQueries
    /\ bShuffled = <<>>
    /\ bOut = BuildNotRun
    /\ OthersIdle("build")

\* the handler's else-branch of line 634 from line 665 on, for one outcome of
\* the shuffle
RequestPlaylist ==
    /\ bOut = BuildNotRun
    /\ \E perm \in Permutations(1..Len(bSubset)) :
          /\ bShuffled' = [i \in 1..Len(bSubset) |-> bSubset[perm[i]]]
          /\ bOut' = BuildOrFail(bSubset, perm, bN, bQuery)
    /\ UNCHANGED <<bSubset, bN, bQuery>>
    /\ OthersUnchanged("build")

BuildNext == RequestPlaylist

BuildSpec == BuildInit /\ [][BuildNext]_vars

Ids(rows) == {rows[i].id : i \in 1..Len(rows)}
Distinct(rows) == \A i, j \in 1..Len(rows) : rows[i].id = rows[j].id => i = j

\* the favorite pattern of a query, and the rows of the shuffled set it matches
FavOf(q) == lower(strip(q))
Matches(rows, q) == SelectRows(rows, FavMask(rows, FavOf(q)))

\* C3: with a non-blank favorite query, the first min(3, matches) rows are the
\* first matches in shuffled order, and no row is lost: before truncation the
\* sequence holds every row of the filtered set exactly once, so a request for
\* at least as many tracks as the set holds returns them all.
C3_FavoritesPromotedNoneLost ==
    (bOut.status = "ok" /\ FavOf(bQuery) # <<>>) =>
        LET m == Matches(bShuffled, bQuery)
            pre == ConcatFavFirst(bShuffled, FavOf(bQuery))
        IN  /\ \A i \in 1..Min(3, Len(m)) : i <= Len(bOut.rows) => bOut.rows[i] = m[i]
            /\ Distinct(pre) /\ Ids(pre) = Ids(bSubset)
            /\ bN >= Len(bSubset) => Ids(bOut.rows) = Ids(bSubset)

Scale == 20

FEATURE_COLUMNS ==
    <<"danceability", "energy", "valence", "tempo", "loudness", "acousticness">>

Moods == {"Senang", "Netral", "Sedih"}

mood_to_valence_pref(mood) ==
    IF mood = "Senang" THEN 16          \* 0.8
    ELSE IF mood = "Sedih" THEN 4       \* 0.2
    ELSE 10                             \* 0.5

\* scale_1_5 = lambda x: (x - 1) / 4.0
scale_1_5(x) == ((x - 1) * Scale) \div 4

\* feature_pref_vector, as user_vec lists it in FEATURE_COLUMNS order
PrefVector(p) ==
    [k \in 1..6 |->
        IF FEATURE_COLUMNS[k] = "valence" THEN mood_to_valence_pref(p.mood)
        ELSE scale_1_5(p[FEATURE_COLUMNS[k]])]

\* np.linalg.norm(user_vec - row) squared
Dist2(u, r) ==
    (u[1]-r[1])*(u[1]-r[1]) + (u[2]-r[2])*(u[2]-r[2]) + (u[3]-r[3])*(u[3]-r[3])
  + (u[4]-r[4])*(u[4]-r[4]) + (u[5]-r[5])*(u[5]-r[5]) + (u[6]-r[6])*(u[6]-r[6])

NoBest == [cluster |-> -1, dist |-> -1]      \* best_cluster = best_dist = None

RECURSIVE ScanLastWins(_, _, _)
\* mutant of the loop: "dist <= best_dist", the last minimum wins
ScanLastWins(user_vec, table, best) ==
    IF table = <<>> THEN best
    ELSE LET dist == Dist2(user_vec, Head(table).mean)
         IN  ScanLastWins(user_vec, Tail(table),
                 IF best = NoBest \/ dist <= best.dist
                 THEN [cluster |-> Head(table).label, dist |-> dist]
                 ELSE best)

RECURSIVE Scan(_, _, _)
\* the loop of lines 258-262 over the rows left, from the best so far
Scan(user_vec, table, best) ==
    IF table = <<>> THEN best
    ELSE LET dist == Dist2(user_vec, Head(table).mean)
         IN  Scan(user_vec, Tail(table),
                 IF best = NoBest \/ dist < best.dist
                 THEN [cluster |-> Head(table).label, dist |-> dist]
                 ELSE best)

choose_cluster_last_wins(pref_vector, cluster_means_norm) ==
    ScanLastWins(PrefVector(pref_vector), cluster_means_norm, NoBest).cluster

choose_cluster_by_preferences(pref_vector, cluster_means_norm) ==
    Scan(PrefVector(pref_vector), cluster_means_norm, NoBest).cluster

\* the inputs drawn: slider ratings, cluster labels, normalized cluster means
RatingChoices == {1, 3, 5}
ClusterLabelPool == {0, 1, 2, 5}
CentroidChoices ==
    { <<20, 20, 10, 20, 20, 20>>,
      << 0, 20, 16,  5, 15, 10>>,
      <<20,  0,  4, 15,  5, 10>> }

Prefs ==
    [mood : Moods, danceability : RatingChoices, energy : RatingChoices,
     tempo : RatingChoices, loudness : RatingChoices, acousticness : RatingChoices]

\* groupby("cluster") lists the labels in ascending order
RECURSIVE SortedSeq(_)
SortedSeq(S) ==
    IF S = {} THEN <<>>
    ELSE LET m == CHOOSE x \in S : \A y \in S : x <= y
         IN  <<m>> \o SortedSeq(S \ {m})

ProfileTables ==
    UNION { { [i \in 1..Cardinality(L) |-> [label |-> SortedSeq(L)[i], mean |-> ms[i]]] :
                ms \in [1..Cardinality(L) -> CentroidChoices] } :
            L \in {X \in SUBSET ClusterLabelPool : Cardinality(X) \in 1..MaxClusters} }

ChooseInit ==
    /\ cTable \in ProfileTables
    /\ cPref \in Prefs
    /\ cOut = ChooseNotRun
    /\ OthersIdle("choose")

ChooseCluster ==
    /\ cOut = ChooseNotRun
    /\ cOut' = [done |-> TRUE, label |-> choose_cluster_by_preferences(cPref, cTable)]
    /\ UNCHANGED <<cTable, cPref>>
    /\ OthersUnchanged("choose")

ChooseNext == ChooseCluster

ChooseSpec == ChooseInit /\ [][ChooseNext]_vars

\* C5: the label returned is a label of the table, no cluster is nearer to the
\* preference vector than the returned one, and every cluster listed before
\* it is strictly farther (the first minimum wins).
C5_NearestFirstMinimum ==
    cOut.done =>
        \E i \in 1..Len(cTable) :
            /\ cTable[i].label = cOut.label
            /\ \A j \in 1..Len(cTable) :
                  Dist2(PrefVector(cPref), cTable[i].mean) <= Dist2(PrefVector(cPref), cTable[j].mean)
            /\ \A j \in 1..(i - 1) :
                  Dist2(PrefVector(cPref), cTable[i].mean) < Dist2(PrefVector(cPref), cTable[j].mean)

\* two clusters at the same minimum distance, a farther one listed first
C5_Witness ==
    /\ cOut.done
    /\ Len(cTable) = 3
    /\ cTable[1].mean # cTable[2].mean
    /\ Dist2(PrefVector(cPref), cTable[2].mean) = Dist2(PrefVector(cPref), cTable[3].mean)
    /\ Dist2(PrefVector(cPref), cTable[1].mean) > Dist2(PrefVector(cPref), cTable[2].mean)
    /\ cTable[2].mean # cTable[3].mean
    /\ cOut.label = cTable[2].label

(***************************************************************************)
(* Country options and the country filter (src/Spotify.py:93-173 and       *)
(* 652-663).  A country cell is None (a missing value, NaN) or Str(t) for  *)
(* a text t.  A name that is not found is the empty text.                  *)
(***************************************************************************)
None == NoText
Str(t) == [nan |-> FALSE, s |-> t]

Bebas == <<"B","e","b","a","s">>
Lainnya == <<"L","a","i","n","n","y","a">>

Digits == <<"0","1","2","3","4","5","6","7","8","9">>

\* the characters of the model in code-point order, as sorted() compares them
CodeOrder == <<" ", "(", ")">> \o Digits \o UpperLetters \o LowerLetters
Ord(ch) == CHOOSE i \in 1..Len(CodeOrder) : CodeOrder[i] = ch

RECURSIVE TextLess(_, _)
\* a < b for two str values
TextLess(a, b) ==
    IF b = <<>> THEN FALSE
    ELSE IF a = <<>> THEN TRUE
    ELSE IF Head(a) # Head(b) THEN Ord(Head(a)) < Ord(Head(b))
    ELSE TextLess(Tail(a), Tail(b))

RECURSIVE SortedTexts(_)
\* sorted(S) for a set of str values
SortedTexts(S) ==
    IF S = {} THEN <<>>
    ELSE LET m == CHOOSE x \in S : \A y \in S \ {x} : TextLess(x, y)
         IN  <<m>> \o SortedTexts(S \ {m})

UpperChar(ch) ==
    IF IsLower(ch) THEN UpperLetters[CHOOSE i \in 1..26 : LowerLetters[i] = ch] ELSE ch
\* str.upper()
upper(t) == [i \in 1..Len(t) |-> UpperChar(t[i])]

\* str.title(): a letter is upper-cased after a character that is no letter
\* (or at the start) and lower-cased after a letter
title(t) ==
    [i \in 1..Len(t) |->
        IF i > 1 /\ isalpha(t[i - 1]) THEN LowerChar(t[i]) ELSE UpperChar(t[i])]

RECURSIVE IntText(_)
\* str(n)
IntText(n) ==
    IF n < 10 THEN <<Digits[n + 1]>>
    ELSE IntText(n \div 10) \o <<Digits[(n % 10) + 1]>>

\* the entries of pycountry.countries and of COUNTRY_NAME_MAP for the codes
\* the model's catalogs hold; every other code of the model is in neither
PyCountryName(code) ==
    IF code = <<"I","N">> THEN <<"I","n","d","i","a">>
    ELSE IF code = <<"P","E">> THEN <<"P","e","r","u">>
    ELSE <<>>

COUNTRY_NAME_MAP(code) ==
    IF code = <<"I","N">> THEN <<"I","n","d","i","a">>
    ELSE IF code = <<"C","Z">> THEN <<"C","e","k","o">>
    ELSE <<>>

\* None when pycountry is missing (py is FALSE) (the import raises) or has no such code
try_pycountry_name(py, alpha2) == IF py THEN PyCountryName(upper(alpha2)) ELSE <<>>

\* mutant: the value is also case-folded
normalize_country_lower(x) == IF x.nan THEN <<>> ELSE lower(strip(x.s))

normalize_country_value(x) == IF x.nan THEN <<>> ELSE strip(x.s)

looks_like_iso2(code) == Len(code) = 2 /\ \A i \in 1..Len(code) : isalpha(code[i])

country_value_to_display(py, raw_value) ==
    LET raw == normalize_country_value(raw_value)
    IN  IF raw = <<>> THEN <<>>
        ELSE IF looks_like_iso2(raw)
             THEN LET code == upper(raw)
                  IN  IF try_pycountry_name(py, code) # <<>> THEN try_pycountry_name(py, code)
                      ELSE COUNTRY_NAME_MAP(code)
             ELSE IF Len(raw) > 2 THEN title(raw) ELSE raw

\* dict.get(key, default) and d[key] = value, a dict being a function
Get(d, key, default) == IF key \in DOMAIN d THEN d[key] ELSE default
Put(d, key, value) == [x \in (DOMAIN d) \cup {key} |-> IF x = key THEN value ELSE d[x]]

\* f"{display} ({n})"
Suffixed(display, n) == display \o <<" ", "(">> \o IntText(n) \o <<")">>

RECURSIVE OptionsLoop(_, _, _)
\* the loop of lines 159-167 over the raw values left
OptionsLoop(py, raw_values, acc) ==
    IF raw_values = <<>> THEN acc
    ELSE LET raw == Head(raw_values)
             display == country_value_to_display(py, Str(raw))
             n == Get(acc.used_count, display, 0) + 1
             label == IF n = 1 THEN display ELSE Suffixed(display, n)
         IN  OptionsLoop(py, Tail(raw_values),
                 IF display # <<>>
                 THEN [acc EXCEPT !.used_count = Put(acc.used_count, display, n),
                                  !.options = Append(acc.options, label),
                                  !.display_to_raw = Put(acc.display_to_raw, label, Str(raw))]
                 ELSE [acc EXCEPT !.unknown_iso2_raw = Append(acc.unknown_iso2_raw, raw)])

build_country_options(py, hasCol, cells) ==
    IF ~hasCol THEN [built |-> TRUE, options |-> <<Bebas>>, display_to_raw |-> <<>>]
    ELSE
    LET normalized == {normalize_country_value(cells[i]) :
                          i \in {j \in 1..Len(cells) : ~cells[j].nan}}
        raw_values == SortedTexts(normalized \ {<<>>})
        acc == OptionsLoop(py, raw_values,
                   [options |-> <<Bebas>>, display_to_raw |-> <<>>,
                    used_count |-> <<>>, unknown_iso2_raw |-> <<>>])
    IN  IF acc.unknown_iso2_raw # <<>>
        THEN [built |-> TRUE, options |-> Append(acc.options, Lainnya),
              display_to_raw |-> Put(acc.display_to_raw, Lainnya, None)]
        ELSE [built |-> TRUE, options |-> acc.options, display_to_raw |-> acc.display_to_raw]

is_unknown_iso2(py, v) ==
    LET raw == normalize_country_value(v)
    IN  looks_like_iso2(raw) /\ country_value_to_display(py, Str(raw)) = <<>>

RECURSIVE KeepRows(_, _, _)
\* the row numbers from i on whose flag holds
KeepRows(flags, i, n) ==
    IF i > n THEN <<>>
    ELSE IF flags[i] THEN <<i>> \o KeepRows(flags, i + 1, n)
         ELSE KeepRows(flags, i + 1, n)

\* lines 652-663: the rows of the subset (by number) the country filter keeps
CountryFilter(py, hasCol, cells, country_pref, display_to_raw) ==
    LET n == Len(cells)
        all == [i \in 1..n |-> i]
    IN  IF country_pref # Bebas /\ hasCol
        THEN LET raw_selected == Get(display_to_raw, country_pref, None)
             IN  IF raw_selected = None
                 THEN KeepRows([i \in 1..n |-> is_unknown_iso2(py, cells[i])], 1, n)
                 ELSE IF raw_selected.s # <<>>
                      THEN KeepRows([i \in 1..n |->
                               normalize_country_value(cells[i]) = raw_selected.s], 1, n)
                      ELSE all
        ELSE all

\* the country cells the catalogs are drawn from: a missing value, a code in
\* three spellings, free text, a code only pycountry knows, an unknown code,
\* a code only the fallback table knows, and free text that reads like a label
CellPool ==
    { None,
      Str(<<"I","N">>), Str(<<"i","n">>), Str(<<" ","I","N"," ">>),
      Str(<<"I","n","d","i","a">>),
      Str(<<"P","E">>), Str(<<"Z","Z">>), Str(<<"C","Z">>),
      Str(<<"B","e","b","a","s">>),
      Str(<<"I","n","d","i","a"," ","(","2",")">>) }

CellSeqs == UNION {[1..k -> CellPool] : k \in 0..MaxCatalog}

CountryInit ==
    /\ kPy \in BOOLEAN
    /\ kHasCol \in BOOLEAN
    /\ kCells \in CellSeqs
    /\ ~kHasCol => \A i \in 1..Len(kCells) : kCells[i] = None
    /\ kOptions = NoOptions
    /\ kPref = <<>>
    /\ kKept = NotFiltered
    /\ OthersIdle("country")

\* line 563
BuildOptions ==
    /\ ~kOptions.built
    /\ kOptions' = build_country_options(kPy, kHasCol, kCells)
    /\ UNCHANGED <<kPy, kHasCol, kCells, kPref, kKept>>
    /\ OthersUnchanged("country")

\* lines 590-593 and 652-663: an option is picked and the filter applied to
\* the rows of the catalog
SelectCountry ==
    /\ kOptions.built
    /\ ~kKept.done
    /\ \E i \in 1..Len(kOptions.options) :
          /\ kPref' = kOptions.options[i]
          /\ kKept' = [done |-> TRUE,
                       rows |-> CountryFilter(kPy, kHasCol, kCells, kOptions.options[i],
                                              kOptions.display_to_raw)]
    /\ UNCHANGED <<kPy, kHasCol, kCells, kOptions>>
    /\ OthersUnchanged("country")

CountryNext == BuildOptions \/ SelectCountry

CountrySpec == CountryInit /\ [][CountryNext]_vars

\* the text of a cell with surrounding whitespace removed (nothing for NaN)
Stripped(cell) == IF cell.nan THEN <<>> ELSE strip(cell.s)
\* a code neither pycountry nor the fallback table resolves
Unresolvable(code) ==
    (kPy => PyCountryName(upper(code)) = <<>>) /\ COUNTRY_NAME_MAP(upper(code)) = <<>>
RowsWhere(P(_)) == KeepRows([i \in 1..Len(kCells) |-> P(kCells[i])], 1, Len(kCells))

SameFolded(cell) ==
    lower(Stripped(cell)) = lower(strip(Get(kOptions.display_to_raw, kPref, None).s))
SameStripped(cell) ==
    Stripped(cell) = Get(kOptions.display_to_raw, kPref, None).s
UnknownIso2(cell) == looks_like_iso2(Stripped(cell)) /\ Unresolvable(Stripped(cell))
AnyCell(cell) == TRUE

\* C7 (as stated): a normal option keeps exactly the rows whose country equals
\* its raw value after case and whitespace normalization, the unresolved
\* sentinel exactly the rows with an unresolvable two-letter code, and
\* "no preference" every row.
C7_FilterCaseInsensitive ==
    kKept.done =>
        LET raw_selected == Get(kOptions.display_to_raw, kPref, None)
        IN  /\ kPref = Bebas => kKept.rows = RowsWhere(AnyCell)
            /\ (kPref # Bebas /\ raw_selected = None) => kKept.rows = RowsWhere(UnknownIso2)
            /\ (kPref # Bebas /\ raw_selected # None) => kKept.rows = RowsWhere(SameFolded)

\* C7 (amended): a normal option keeps exactly the rows whose country, with
\* surrounding whitespace removed, equals its raw value letter case included;
\* the sentinel and "no preference" as stated.
C7_FilterExactStripped ==
    kKept.done =>
        LET raw_selected == Get(kOptions.display_to_raw, kPref, None)
        IN  /\ kPref = Bebas => kKept.rows = RowsWhere(AnyCell)
            /\ (kPref # Bebas /\ raw_selected = None) => kKept.rows = RowsWhere(UnknownIso2)
            /\ (kPref # Bebas /\ raw_selected # None) => kKept.rows = RowsWhere(SameStripped)

\* "IN", " IN " and "in" in one catalog: the option backed by "IN" keeps the
\* first two rows and not the third
C7_Witness ==
    /\ kKept.done
    /\ kCells = <<Str(<<"I","N">>), Str(<<" ","I","N"," ">>), Str(<<"i","n">>)>>
    /\ kPref = <<"I","n","d","i","a">>
    /\ kKept.rows = <<1, 2>>

\* the raw values of the catalog that get a label, and the label line 163
\* gives the n-th raw value (in sorted order) of a display text
LabelledRaws ==
    {r \in {Stripped(kCells[i]) : i \in 1..Len(kCells)} :
        r # <<>> /\ country_value_to_display(kPy, Str(r)) # <<>>}
RankOf(r) ==
    Cardinality({q \in LabelledRaws :
        /\ country_value_to_display(kPy, Str(q)) = country_value_to_display(kPy, Str(r))
        /\ (q = r \/ TextLess(q, r))})
LabelOf(r) ==
    IF RankOf(r) = 1 THEN country_value_to_display(kPy, Str(r))
    ELSE Suffixed(country_value_to_display(kPy, Str(r)), RankOf(r))

\* C8: the labels of the option list are pairwise distinct, sentinels
\* included; the n-th raw value of a display text (first seen first) is
\* labelled with the text, suffixed (n) from the second on; every label but
\* the sentinels maps to a raw value no other label maps to, and every raw
\* value that resolves is reached through exactly one label.
C8_LabelsDistinctAndInvertible ==
    (kOptions.built /\ kHasCol) =>
        LET opts == kOptions.options
            map == kOptions.display_to_raw
        IN  /\ \A i, j \in 1..Len(opts) : opts[i] = opts[j] => i = j
            /\ \A r \in LabelledRaws :
                  /\ \E i \in 1..Len(opts) : opts[i] = LabelOf(r)
                  /\ Get(map, LabelOf(r), None) = Str(r)
                  /\ Cardinality({i \in 1..Len(opts) : Get(map, opts[i], None) = Str(r)}) = 1
            /\ \A i, j \in 2..Len(opts) :
                  (i # j /\ Get(map, opts[i], None) # None) =>
                      Get(map, opts[i], None) # Get(map, opts[j], None)

\* C8 on the catalogs none of whose raw values displays as a sentinel label or
\* as a suffixed label
C8_PlainCatalogs ==
    (\A i \in 1..Len(kCells) :
        kCells[i] \notin {Str(<<"B","e","b","a","s">>),
                          Str(<<"I","n","d","i","a"," ","(","2",")">>)})
    => C8_LabelsDistinctAndInvertible

(***************************************************************************)
(* get_cluster_mapping_by_valence (src/Spotify.py:228-232).  A catalog row *)
(* is [cluster, valence], the valence in units of 1/Scale.  Means are      *)
(* compared exactly, as fractions.  sort_values(ascending=False) gives an  *)
(* order of the cluster labels by descending mean; which of two clusters   *)
(* of equal mean comes first is left to the sort, so the caller of the     *)
(* operator chooses the order among the descending ones.                   *)
(***************************************************************************)
ClustersOf(df) == {df[i].cluster : i \in 1..Len(df)}

RECURSIVE ValenceSum(_, _)
ValenceSum(df, c) ==
    IF df = <<>> THEN 0
    ELSE (IF Head(df).cluster = c THEN Head(df).valence ELSE 0) + ValenceSum(Tail(df), c)

ValenceCount(df, c) == Cardinality({i \in 1..Len(df) : df[i].cluster = c})

\* mean valence of cluster a >= mean valence of cluster b
MeanGE(df, a, b) ==
    ValenceSum(df, a) * ValenceCount(df, b) >= ValenceSum(df, b) * ValenceCount(df, a)

\* the index orders df.groupby("cluster")["valence"].mean()
\*   .sort_values(ascending=False) can have
DescendingOrders(df) ==
    LET labels == ClustersOf(df)
        n == Cardinality(labels)
    IN  {order \in [1..n -> labels] :
            /\ \A i, j \in 1..n : order[i] = order[j] => i = j
            /\ \A i, j \in 1..n : i < j => MeanGE(df, order[i], order[j])}

\* mutant: the means are sorted in ascending order
mapping_by_valence_ascending(df, order) ==
    IF order = <<>> THEN [status |-> "IndexError", happy |-> 0, sad |-> 0]
    ELSE [status |-> "ok", happy |-> order[Len(order)], sad |-> order[1]]

\* order is valence_mean.index; index[0] of an empty index raises IndexError
get_cluster_mapping_by_valence(df, order) ==
    IF order = <<>> THEN [status |-> "IndexError", happy |-> 0, sad |-> 0]
    ELSE [status |-> "ok", happy |-> order[1], sad |-> order[Len(order)]]

ValenceLabels == {1, 2, 3}
ValenceChoices == {4, 10, 16}        \* 0.2, 0.5, 0.8
ValenceRows == [cluster : ValenceLabels, valence : ValenceChoices]
ValenceCatalogs == UNION {[1..k -> ValenceRows] : k \in 0..MaxValenceRows}

ValenceInit ==
    /\ mCatalog \in ValenceCatalogs
    /\ mOut = MappingNotRun
    /\ OthersIdle("valence")

MapClusters ==
    /\ mOut = MappingNotRun
    /\ \E order \in DescendingOrders(mCatalog) :
           mOut' = get_cluster_mapping_by_valence(mCatalog, order)
    /\ UNCHANGED mCatalog
    /\ OthersUnchanged("valence")

ValenceNext == MapClusters

ValenceSpec == ValenceInit /\ [][ValenceNext]_vars

\* the mean valence of cluster c is v
MeanIs(df, c, v) ==
    ValenceCount(df, c) > 0 /\ ValenceSum(df, c) = v * ValenceCount(df, c)

\* C12: for a catalog with at least one row, the "happy" cluster has a mean
\* valence >= that of every cluster and the "sad" cluster a mean valence <=
\* that of every cluster; with exactly one cluster the two labels are
\* equal; means 0.8, 0.5, 0.2 for clusters 1, 2, 3 give happy 1 and sad 3.
C12_HappyHighestSadLowest ==
    (mOut # MappingNotRun /\ mCatalog # <<>>) =>
        /\ mOut.status = "ok"
        /\ mOut.happy \in ClustersOf(mCatalog)
        /\ mOut.sad \in ClustersOf(mCatalog)
        /\ \A c \in ClustersOf(mCatalog) :
               MeanGE(mCatalog, mOut.happy, c) /\ MeanGE(mCatalog, c, mOut.sad)
        /\ Cardinality(ClustersOf(mCatalog)) = 1 => mOut.happy = mOut.sad
        /\ (/\ ClustersOf(mCatalog) = {1, 2, 3}
            /\ MeanIs(mCatalog, 1, 16)
            /\ MeanIs(mCatalog, 2, 10)
            /\ MeanIs(mCatalog, 3, 4))
           => (mOut.happy = 1 /\ mOut.sad = 3)

\* three clusters, the middle one a mean of two rows: means 0.2, 0.65, 0.8
\* for clusters 1, 2, 3
C12_Witness ==
    /\ mCatalog = << [cluster |-> 2, valence |-> 10], [cluster |-> 1, valence |-> 4],
                     [cluster |-> 3, valence |-> 16], [cluster |-> 2, valence |-> 16] >>
    /\ mOut = [status |-> "ok", happy |-> 3, sad |-> 1]

(***************************************************************************)
(* One session: the preference handler (src/Spotify.py:633-678) and the    *)
(* feedback handler (src/Spotify.py:770-803) with save_feedback_final      *)
(* (src/Spotify.py:330-376).  The feedback handler stands at "idle", at    *)
(* "local" (inside save_feedback_jsonl_local) or at "remote" (inside       *)
(* save_feedback_to_google_sheet, waiting for the sheet service).          *)
(* The local file is the sequence of chunks written to it: a whole line    *)
(* (record and newline) or, after a failed write, a part of one.           *)
(* The record's timestamp (wall clock) and the session fields fav_query    *)
(* and feature_prefs, which no handler reads back, are left out.           *)
(***************************************************************************)
Track(i, c, country, name, artist) ==
    [id |-> i, cluster |-> c, country |-> country, track_name |-> name,
     track_artist |-> artist]

\* df, the catalog load_data returned
SessionCatalog ==
    << Track(1, 0, Str(<<"I","N">>), <<"c">>,     <<"x">>),
       Track(2, 0, Str(<<" ","I","N">>), <<"a","b">>, <<"y">>),
       Track(3, 1, Str(<<"i","n">>), <<"a">>,     <<"y">>) >>

\* cluster_means_norm of that catalog
SessionProfiles ==
    << [label |-> 0, mean |-> << 0, 20, 16,  5, 15, 10>>],
       [label |-> 1, mean |-> <<20,  0,  4, 15,  5, 10>>] >>

SessionCells == [i \in 1..Len(SessionCatalog) |-> SessionCatalog[i].country]

\* country_options, display_to_raw_country of line 563
\* whether "import pycountry" succeeds where the session runs
SessionPy == FALSE

SessionOptions == build_country_options(SessionPy, TRUE, SessionCells)

\* the inputs of the preference form that are drawn
UserIdChoices == { <<" ">>, <<" ","u">> }
SessionPrefs ==
    [mood : {"Senang", "Sedih"}, danceability : {1}, energy : {1}, tempo : {1}, loudness : {1},
     acousticness : {1}]
SessionQueries == { <<>>, <<"a">> }

\* lines 648-663: the rows of the target clusters that pass the country filter
FilteredSubset(df, target_clusters, country_pref, display_to_raw) ==
    LET subset == SelectRows(df, [i \in 1..Len(df) |-> df[i].cluster \in target_clusters])
        kept == CountryFilter(SessionPy, TRUE, [i \in 1..Len(subset) |-> subset[i].country],
                              country_pref, display_to_raw)
    IN  [i \in 1..Len(kept) |-> subset[kept[i]]]

TargetClusters(pref) == {choose_cluster_by_preferences(pref, SessionProfiles)}

\* the target clusters and the filtered subset of every choice of preferences
\* and country option (lines 647-663)
SessionTargets == [pref \in SessionPrefs |-> TargetClusters(pref)]
SessionSubsets ==
    [pref \in SessionPrefs, o \in 1..Len(SessionOptions.options) |->
        FilteredSubset(SessionCatalog, SessionTargets[pref], SessionOptions.options[o],
                       SessionOptions.display_to_raw)]

\* what lines 665-669 can give for them and a favorite query, one outcome for
\* every order the shuffle can produce
SessionBuilds ==
    [pref \in SessionPrefs, o \in 1..Len(SessionOptions.options),
     fav_query \in SessionQueries |->
        {BuildOrFail(SessionSubsets[pref, o], perm, MinTracks, fav_query) :
            perm \in Permutations(1..Len(SessionSubsets[pref, o]))}]

\* lines 633-678, for one outcome of the shuffle: the warning for a blank
\* responder id, the empty-selection error (or the exception of the build),
\* or the new playlist stored in the session
SubmitPref ==
    /\ pc = "idle"
    /\ \E user_id \in UserIdChoices :
          IF strip(user_id) = <<>>
          THEN /\ sMsg' = "warning_user_id"
               /\ UNCHANGED <<sPlaylist, sClusters, sUser, sMood>>
          ELSE \E pref \in SessionPrefs, fav_query \in SessionQueries,
                  o \in 1..Len(SessionOptions.options) :
               \E built \in SessionBuilds[pref, o, fav_query] :
                      IF built.status # "ok"
                      THEN /\ sMsg' = built.status
                           /\ UNCHANGED <<sPlaylist, sClusters, sUser, sMood>>
                      ELSE /\ sPlaylist' = [set |-> TRUE, rows |-> built.rows]
                           /\ sClusters' = SortedSeq(SessionTargets[pref])
                           /\ sUser' = Str(strip(user_id))
                           /\ sMood' = pref.mood
                           /\ sMsg' = "playlist_created"
    /\ UNCHANGED <<log, sheet, pc, fRow, fSteps, nSubmits, nValid>>
    /\ OthersUnchanged("session")

\* the inputs of the feedback form that are drawn
FeedbackRatings == {4}
FeedbackComments == { <<" ">>, <<" ","o","k","e">> }

\* mutant: the identifiers are listed last track first
track_ids_reversed(rows) == [i \in 1..Len(rows) |-> rows[Len(rows) + 1 - i].id]

\* track_ids of lines 780-787 (load_data always leaves a track_id column here)
TrackIds(rows) == [i \in 1..Len(rows) |-> rows[i].id]

\* feedback_row of lines 789-797
FeedbackRow(rating, clean_comment) ==
    [user_id |-> sUser, mood |-> sMood, chosen_clusters |-> sClusters,
     rating |-> rating, comment |-> clean_comment, tracks |-> TrackIds(sPlaylist.rows)]

\* lines 770-799 up to the call of save_feedback_final: the validation
\* warning and st.stop(), the AttributeError of line 780 when the session
\* holds no playlist (playlist_df is None), or the row handed to the save
SubmitFeedback ==
    /\ pc = "idle"
    /\ nSubmits < MaxSubmits
    /\ nSubmits' = nSubmits + 1
    /\ \E rating \in FeedbackRatings, comment \in FeedbackComments :
          LET v == validate_comment_if_filled(comment)
          IN  IF v.err # "none"
              THEN /\ sMsg' = "warning_comment"
                   /\ UNCHANGED <<pc, fRow, fSteps, nValid>>
              ELSE IF ~sPlaylist.set
              THEN /\ sMsg' = "AttributeError"
                   /\ nValid' = nValid + 1
                   /\ UNCHANGED <<pc, fRow, fSteps>>
              ELSE /\ sMsg' = "saving"
                   /\ nValid' = nValid + 1
                   /\ fRow' = FeedbackRow(rating, v.value)
                   /\ fSteps' = <<>>
                   /\ pc' = "local"
    /\ UNCHANGED <<sPlaylist, sClusters, sUser, sMood, log, sheet>>
    /\ OthersUnchanged("session")

WholeLine(row) == [row |-> row, whole |-> TRUE]
PartOfLine(row) == [row |-> row, whole |-> FALSE]

\* mutant: the file is opened with mode "w"
overwrite_file(file, chunk) == <<chunk>>

\* open(path, "a") and f.write: the chunk goes to the end of the file
append_to_file(file, chunk) == Append(file, chunk)

\* mutant: the exception of the remote append is not caught
save_final_propagates(remote_raised) == IF remote_raised THEN "raise" ELSE "return"

\* lines 372-376: how save_feedback_final ends once the remote append is over
save_final_outcome(remote_raised) == "return"

\* what the handler shows after save_feedback_final: the exception it let
\* through, or the "saved" notice of lines 801-803
AfterSave(outcome) == IF outcome = "return" THEN "saved" ELSE "Exception"

\* save_feedback_jsonl_local succeeds: the line is in the file, and line 373
\* calls the remote append
LocalAppendOk ==
    /\ pc = "local"
    /\ log' = append_to_file(log, WholeLine(fRow))
    /\ fSteps' = Append(fSteps, "local_ok")
    /\ pc' = "remote"
    /\ UNCHANGED <<sPlaylist, sClusters, sUser, sMood, sMsg, sheet, fRow, nSubmits, nValid>>
    /\ OthersUnchanged("session")

\* save_feedback_jsonl_local raises (open, write, flush or fsync fails), with
\* nothing, a part of the line or the whole line in the file; the exception
\* leaves save_feedback_final at line 369
LocalAppendFail ==
    /\ pc = "local"
    /\ \/ log' = log
       \/ log' = append_to_file(log, PartOfLine(fRow))
       \/ log' = append_to_file(log, WholeLine(fRow))
    /\ fSteps' = fSteps \o <<"local_fail", "raise">>
    /\ sMsg' = "OSError"
    /\ pc' = "idle"
    /\ UNCHANGED <<sPlaylist, sClusters, sUser, sMood, sheet, fRow, nSubmits, nValid>>
    /\ OthersUnchanged("session")

\* the sheet service appends the row and answers
RemoteOk ==
    /\ pc = "remote"
    /\ sheet' = Append(sheet, fRow)
    /\ fSteps' = fSteps \o <<"remote_ok", save_final_outcome(FALSE)>>
    /\ sMsg' = AfterSave(save_final_outcome(FALSE))
    /\ pc' = "idle"
    /\ UNCHANGED <<sPlaylist, sClusters, sUser, sMood, log, fRow, nSubmits, nValid>>
    /\ OthersUnchanged("session")

\* save_feedback_to_google_sheet raises: no secrets, a refused credential, a
\* network or API error, with the row appended or not
RemoteFail ==
    /\ pc = "remote"
    /\ sheet' \in {sheet, Append(sheet, fRow)}
    /\ fSteps' = fSteps \o <<"remote_fail", save_final_outcome(TRUE)>>
    /\ sMsg' = AfterSave(save_final_outcome(TRUE))
    /\ pc' = "idle"
    /\ UNCHANGED <<sPlaylist, sClusters, sUser, sMood, log, fRow, nSubmits, nValid>>
    /\ OthersUnchanged("session")

Init ==
    /\ sPlaylist = NoPlaylist /\ sClusters = <<>> /\ sUser = NoText /\ sMood = "None"
    /\ sMsg = "none" /\ log = <<>> /\ sheet = <<>> /\ pc = "idle" /\ fRow = NoRow
    /\ fSteps = <<>> /\ nSubmits = 0 /\ nValid = 0
    /\ OthersIdle("session")

Next ==
    \/ SubmitPref
    \/ SubmitFeedback
    \/ LocalAppendOk
    \/ LocalAppendFail
    \/ RemoteOk
    \/ RemoteFail

Spec == Init /\ [][Next]_vars

\* The local write is a call to the operating system that ends; the sheet
\* service is under no obligation to answer, and the code sets no timeout.
FairSpec == Spec /\ WF_vars(LocalAppendOk \/ LocalAppendFail)

IsPrefix(a, b) == Len(a) <= Len(b) /\ SubSeq(b, 1, Len(a)) = a
RemoteSteps == {"remote_ok", "remote_fail"}

\* C1: the remote append is attempted only after the local append has
\* succeeded (the sheet changes only while save_feedback_final waits on the
\* remote call, the line of the row already in the file); a failed local
\* append ends the operation with the exception and with no remote call; after
\* a successful local append the operation returns normally whether the remote
\* append succeeded or raised.
C1_LocalFirstRemoteBestEffort ==
    /\ [](/\ pc = "remote" => fSteps = <<"local_ok">>
          /\ \A i \in 1..Len(fSteps) :
                fSteps[i] \in RemoteSteps => (i = 2 /\ fSteps[1] = "local_ok")
          /\ (fSteps # <<>> /\ fSteps[1] = "local_fail") =>
                (fSteps = <<"local_fail", "raise">> /\ pc = "idle")
          /\ (fSteps # <<>> /\ fSteps[1] = "local_ok" /\ pc # "remote") =>
                (Len(fSteps) = 3 /\ fSteps[2] \in RemoteSteps /\ fSteps[3] = "return"))
    /\ [][/\ sheet' # sheet =>
                (pc = "remote" /\ log # <<>> /\ log[Len(log)] = WholeLine(fRow))
          /\ (pc = "local" /\ pc' = "idle") =>
                (sheet' = sheet /\ sMsg' = "OSError")
          /\ (pc = "remote" /\ pc' = "idle") => sMsg' = "saved"]_vars

\* the local append succeeded, the remote append raised without appending,
\* and the operation returned normally
C1_Witness ==
    /\ fSteps = <<"local_ok", "remote_fail", "return">>
    /\ sMsg = "saved"
    /\ Len(log) = 1 /\ log[1].whole
    /\ sheet = <<>>

AllWhole(file) == \A i \in 1..Len(file) : file[i].whole

C10_SaveEventuallyReturns == (pc = "remote") ~> (pc = "idle")

\* user id, mood, cluster labels and rows are those one run of lines 636-674
\* stores: one responder id, one set of preferences, one country option, one
\* favorite query and one outcome of the shuffle give them all
FromOneBuild(user, mood, clusters, rows) ==
    \E user_id \in UserIdChoices, pref \in SessionPrefs, fav_query \in SessionQueries,
       o \in 1..Len(SessionOptions.options) :
        \E built \in SessionBuilds[pref, o, fav_query] :
            /\ strip(user_id) # <<>>
            /\ built.status = "ok"
            /\ rows = built.rows
            /\ clusters = SortedSeq(SessionTargets[pref])
            /\ user = Str(strip(user_id))
            /\ mood = pref.mood

IdsInOrder(rows) == [i \in 1..Len(rows) |-> rows[i].id]
SessionContext == <<sPlaylist, sClusters, sUser, sMood>>
Rejections == {"warning_user_id", "empty", "re.error"}

\* the record carries the user id, mood, cluster labels and ordered track
\* identifiers the session holds
CarriesContext(row) ==
    /\ sPlaylist.set
    /\ row.user_id = sUser
    /\ row.mood = sMood
    /\ row.chosen_clusters = sClusters
    /\ row.tracks = IdsInOrder(sPlaylist.rows)

\* C14: the playlist, clusters, mood and user id of the session are those of
\* one playlist build and change only when a request succeeds (a request
\* rejected for a blank responder id or failing with an empty selection, and
\* every feedback submission, leave them as they are), so they are those of
\* the most recent successful build; every track of the session playlist
\* belongs to the session's chosen clusters; every record written to the log
\* or the sheet carries the user id, mood, clusters and ordered track
\* identifiers the session holds, and none is written while the session holds
\* no playlist.
C14_RecordsCarryLatestBuild ==
    /\ [](/\ sPlaylist.set =>
                /\ FromOneBuild(sUser, sMood, sClusters, sPlaylist.rows)
                /\ \A i \in 1..Len(sPlaylist.rows) :
                       \E j \in 1..Len(sClusters) : sPlaylist.rows[i].cluster = sClusters[j]
          /\ ~sPlaylist.set =>
                (log = <<>> /\ sheet = <<>> /\ sClusters = <<>> /\ sUser = NoText
                 /\ sMood = "None")
          /\ \A i \in 1..Len(log) :
                FromOneBuild(log[i].row.user_id, log[i].row.mood,
                             log[i].row.chosen_clusters,
                             [k \in 1..Len(log[i].row.tracks) |->
                                 SessionCatalog[log[i].row.tracks[k]]]))
    /\ [][/\ SessionContext' # SessionContext =>
                (pc = "idle" /\ sMsg' = "playlist_created"
                 /\ FromOneBuild(sUser', sMood', sClusters', sPlaylist'.rows))
          /\ sMsg' \in Rejections => SessionContext' = SessionContext
          /\ nSubmits' # nSubmits => SessionContext' = SessionContext
          /\ log' # log =>
                (Len(log') = Len(log) + 1 /\ CarriesContext(log'[Len(log')].row))
          /\ sheet' # sheet =>
                (Len(sheet') = Len(sheet) + 1 /\ CarriesContext(sheet'[Len(sheet')]))]_vars

\* a record of a two-track playlist, a second playlist for another mood and
\* its record, then a request failing with an empty selection: the session
\* still holds the second playlist and the second record carries it
C14_Witness ==
    /\ pc = "idle"
    /\ sMsg = "empty"
    /\ Len(log) = 2
    /\ log[1].row.mood = "Senang" /\ Len(log[1].row.tracks) = 2
    /\ log[2].row.mood = "Sedih" /\ log[2].row.tracks = <<3>>
    /\ sMood = "Sedih" /\ sClusters = <<1>>
    /\ IdsInOrder(sPlaylist.rows) = <<3>>

(***************************************************************************)
(* Several sessions appending to the one local log                         *)
(* (save_feedback_jsonl_local, src/Spotify.py:330-335).  Every call opens  *)
(* the file in mode "a" for itself and takes no lock.  f.write puts the    *)
(* line in the file object's buffer; f.flush hands the buffer to the       *)
(* operating system with write calls on the O_APPEND descriptor: one call  *)
(* puts the bytes it accepts at the end of the file as it is then, may     *)
(* accept fewer bytes than it was given, and the flush calls again with    *)
(* the rest until the buffer is empty.  A line is modelled as three        *)
(* units: two parts of the record's JSON text and the newline.  Writes     *)
(* that raise are followed in Spec (LocalAppendFail), not here.            *)
(***************************************************************************)
Sessions == 1..MaxSessions

NewlineUnit == [rec |-> <<0, 0>>, part |-> 0]
TextUnit(rec, k) == [rec |-> rec, part |-> k]

\* line = json.dumps(row, ensure_ascii=False) + "\n"
LineOf(rec) == <<TextUnit(rec, 1), TextUnit(rec, 2), NewlineUnit>>

RECURSIVE SumUpTo(_, _)
SumUpTo(f, n) == IF n = 0 THEN 0 ELSE f[n] + SumUpTo(f, n - 1)

SharedInit ==
    /\ qQueue = [s \in Sessions |-> 0]
    /\ qLeft = [s \in Sessions |-> <<>>]
    /\ qFile = <<>>
    /\ OthersIdle("shared")

\* lines 331-333: a session builds the line of its next record, opens the
\* file and writes the line to the buffer
BeginAppend(s) ==
    /\ qLeft[s] = <<>>
    /\ SumUpTo(qQueue, MaxSessions) < MaxAppends
    /\ qQueue' = [qQueue EXCEPT ![s] = @ + 1]
    /\ qLeft' = [qLeft EXCEPT ![s] = LineOf(<<s, qQueue[s] + 1>>)]
    /\ UNCHANGED qFile
    /\ OthersUnchanged("shared")

\* line 334: one write call of the flush; it accepts the first k units of
\* what is left and appends them at the end of the file
WriteCall(s) ==
    /\ qLeft[s] # <<>>
    /\ \E k \in 1..Len(qLeft[s]) :
          /\ qFile' = qFile \o SubSeq(qLeft[s], 1, k)
          /\ qLeft' = [qLeft EXCEPT ![s] = SubSeq(@, k + 1, Len(@))]
    /\ UNCHANGED qQueue
    /\ OthersUnchanged("shared")

SharedNext == \E s \in Sessions : BeginAppend(s) \/ WriteCall(s)

SharedSpec == SharedInit /\ [][SharedNext]_vars

RECURSIVE SplitLines(_, _)
\* the lines of the file: the units before each newline, and what follows
\* the last newline if anything does
SplitLines(file, cur) ==
    IF file = <<>> THEN (IF cur = <<>> THEN <<>> ELSE <<cur>>)
    ELSE IF Head(file) = NewlineUnit
         THEN <<cur>> \o SplitLines(Tail(file), <<>>)
         ELSE SplitLines(Tail(file), Append(cur, Head(file)))

IsRecordLine(l) ==
    Len(l) = 2 /\ l[1].rec = l[2].rec /\ l[1].part = 1 /\ l[2].part = 2

AllWritten == \A s \in Sessions : qLeft[s] = <<>>
BegunRecords == {r \in (Sessions \X (1..MaxAppends)) : r[2] <= qQueue[r[1]]}

\* C11: whatever the interleaving of the sessions' appends, no line of the
\* log holds parts of two records, and once every append has finished each
\* line is one whole record and every record appended is on exactly one
\* line; the order of the lines is free.
C11_WholeLinesOnly ==
    LET lines == SplitLines(qFile, <<>>)
    IN  /\ \A i \in 1..Len(lines) : \A j, k \in 1..Len(lines[i]) :
               lines[i][j].rec = lines[i][k].rec
        /\ AllWritten =>
               /\ \A i \in 1..Len(lines) : IsRecordLine(lines[i])
               /\ Len(lines) = Cardinality(BegunRecords)
               /\ {lines[i][1].rec : i \in 1..Len(lines)} = BegunRecords

=============================================================================
